---- MODULE Spec2Model ----
(***************************************************************************)
(* A model of the data agent of langchain_data_agent:                      *)
(*   - SQLValidator (validators/sql_validator.py): the statement           *)
(*     classifier, the function blocklist, the row-limit enforcer and the  *)
(*     keyword-based fallback for Cosmos DB;                               *)
(*   - the generate / validate / retry / execute graph of one data agent   *)
(*     (graph.py, nodes/data_nodes.py, nodes/response.py);                 *)
(*   - the intent-detection workflow around it (agent.py).                 *)
(*                                                                         *)
(* Query texts are abstracted to records that keep what sqlglot's parser   *)
(* and the keyword scan can tell apart; the language model, the datasource *)
(* and the caller are nondeterministic choices.                            *)
(***************************************************************************)
EXTENDS Integers, Sequences, FiniteSets, TLC

\* ------------------------------------------------------------------ bounds
\* Longest list of function-call nodes in one query text.
MaxFuncs == 2
\* Largest LIMIT literal a query text carries; max_limit ranges over 1..MaxLimitVal.
MaxLimitVal == 3
\* Largest retry budget (AgentConfig.max_retries) the agent spec is run with.
MaxBudget == 3
\* Questions asked on the conversation thread.
MaxQuestions == 2
\* SQLValidator objects constructed in one process.
MaxValidators == 2

\* ------------------------------------------------------- names and letter case
\* A name is its lower-case spelling plus the letter case it is written in.
Cases == {"lower", "upper", "mixed"}

Name(b, c) == [base |-> b, cs |-> c]

\* str.lower()
Lower(n) == [n EXCEPT !.cs = "lower"]

\* str.upper()
Upper(n) == [n EXCEPT !.cs = "upper"]

\* SQLValidator.DANGEROUS_FUNCTIONS: the class-level default blocklist, all
\* spelled in lower case.
DANGEROUS_FUNCTIONS ==
    { Name(b, "lower") : b \in
        { "pg_sleep", "pg_read_file", "pg_read_binary_file", "pg_ls_dir",
          "pg_stat_file", "lo_import", "lo_export", "sleep", "benchmark",
          "load_file", "into_outfile", "into_dumpfile", "xp_cmdshell",
          "xp_fileexist", "xp_dirtree", "xp_regread", "xp_regwrite",
          "sp_oacreate", "sp_oamethod", "openrowset", "opendatasource",
          "bulk", "waitfor", "session_user", "reflect", "java_method",
          "exec", "execute", "system", "shell" } }

\* SQLValidator.WRITE_STATEMENTS: the sqlglot expression classes that are writes.
WRITE_STATEMENTS ==
    { "Insert", "Update", "Delete", "Drop", "Create", "Alter", "Merge",
      "TruncateTable", "Copy", "LoadData", "Grant", "Revoke" }

\* SQLValidator.BASIC_VALIDATION_DIALECTS
BASIC_VALIDATION_DIALECTS == {"cosmosdb"}

\* SQLValidator.DISALLOWED_KEYWORDS
DISALLOWED_KEYWORDS ==
    { "INSERT", "UPDATE", "DELETE", "DROP", "CREATE", "ALTER", "TRUNCATE",
      "MERGE", "GRANT", "REVOKE" }

\* SQLValidator.DIALECT_MAP.get(dialect, dialect)
DIALECT_MAP(d) ==
    CASE d \in {"mssql", "azure_sql", "synapse"} -> "tsql"
      [] d = "postgresql" -> "postgres"
      [] OTHER -> d

\* ------------------------------------------------------------- query texts
\* The top-level form sqlglot.parse_one gives a text: an expression class, or
\* the error it raises.  "Command" is sqlglot's fallback class for statements
\* it only tokenizes (EXEC, SET, SHOW, ...).  "Empty" is the empty string.
ReadTops == {"Select", "Union", "Intersect", "Except", "Subquery"}

ErrorTops == {"ParseError", "TokenError", "Empty"}

Tops == ReadTops \cup WRITE_STATEMENTS \cup {"Command"} \cup ErrorTops

\* A function-call node (sqlglot exp.Func): cls is the expression class the
\* parser chose, "Anonymous" when it has no dedicated class for the function;
\* name is the function name as the text spells it.
FuncNode(cls, n) == [cls |-> cls, name |-> n]

FuncNodes ==
    { FuncNode("Anonymous", Name("pg_sleep", c)) : c \in Cases }
      \cup { FuncNode("Anonymous", Name("my_udf", c)) : c \in Cases }
      \cup { FuncNode("Reflect", Name("reflect", c)) : c \in Cases }
      \cup { FuncNode("Reflect", Name("java_method", c)) : c \in {"lower"} }
      \cup { FuncNode("Count", Name("count", c)) : c \in {"lower", "upper"} }

RECURSIVE SeqsUpTo(_, _)
SeqsUpTo(S, n) ==
    IF n = 0 THEN {<<>>}
    ELSE LET shorter == SeqsUpTo(S, n - 1)
         IN  shorter \cup { Append(s, x) : s \in {t \in shorter : Len(t) = n - 1}, x \in S }

\* A LIMIT clause: {} when the statement has none, {n} for LIMIT n.
Limits == {{}} \cup { {n} : n \in 0..(MaxLimitVal + 1) }

\* A query text.
\*   top         top-level form (see Tops)
\*   funcs       the function-call nodes of the tree, in find_all order
\*   limit       the LIMIT clause of the top-level statement
\*   inner       the LIMIT clause of a nested subquery or CTE
\*   startsSelect  text.strip().upper().startswith("SELECT")
\*   kwSpace     write keywords occurring with a space on both sides
\*   kwOther     write keywords occurring as whole tokens delimited otherwise
\*               (line break, tab, semicolon, parenthesis)
\*   phrase      "" or a phrase of the text that a syntax error message quotes
\*   fmt         "raw" as the model wrote it, "canon" as sqlglot renders it
Text(top, funcs, limit, inner, ss, kws, kwo, phrase, fmt) ==
    [ top |-> top, funcs |-> funcs, limit |-> limit, inner |-> inner,
      startsSelect |-> ss, kwSpace |-> kws, kwOther |-> kwo,
      phrase |-> phrase, fmt |-> fmt ]

EmptyText == Text("Empty", <<>>, {}, {}, FALSE, {}, {}, "", "raw")

Phrases == {"", "failed after", "Max retries"}

\* The texts the validator is checked on.  Each family varies the fields one
\* part of the validator reads.
FuncTexts ==
    { Text(top, fs, {}, {}, top # "Subquery", {}, {}, "", fmt) :
        top \in ReadTops, fs \in SeqsUpTo(FuncNodes, MaxFuncs), fmt \in {"raw", "canon"} }

LimitTexts ==
    { Text(top, <<>>, l, i, top # "Subquery", {}, {}, "", "raw") :
        top \in ReadTops, l \in Limits, i \in Limits }

OtherTexts ==
    { Text(top, <<>>, {}, {}, FALSE, kws, {}, "", "raw") :
        top \in WRITE_STATEMENTS \cup {"Command"},
        kws \in {{}, {"UPDATE"}, {"INSERT", "DROP"}} }

ErrorTexts ==
    { Text(top, <<>>, {}, {}, ss, {}, {}, ph, "raw") :
        top \in {"ParseError", "TokenError"}, ss \in BOOLEAN, ph \in Phrases }
      \cup {EmptyText}

LexicalTexts ==
    { Text(top, <<>>, {}, {}, ss, kws, kwo, "", "raw") :
        top \in {"Select", "ParseError"}, ss \in BOOLEAN,
        kws \in {{}, {"UPDATE"}, {"DELETE", "CREATE"}},
        kwo \in {{}, {"UPDATE"}} }

Texts == FuncTexts \cup LimitTexts \cup OtherTexts \cup ErrorTexts \cup LexicalTexts

\* ---------------------------------------------------------------- sqlglot
\* sqlglot.parse_one(query, dialect): the tree keeps every token of the
\* statement; only the layout of the text is lost.
Parse(q) ==
    [ top |-> q.top, funcs |-> q.funcs, limit |-> q.limit, inner |-> q.inner,
      startsSelect |-> q.startsSelect, kwSpace |-> q.kwSpace,
      kwOther |-> q.kwOther, phrase |-> q.phrase ]

\* Func.sql_name(): a classmethod, the first SQL name of the node's CLASS.
\* exp.Anonymous has no name of its own, so every anonymous call answers
\* "ANONYMOUS"; exp.Reflect answers "REFLECT" for reflect() and java_method().
sql_name(f) ==
    CASE f.cls = "Anonymous" -> Name("anonymous", "upper")
      [] f.cls = "Reflect" -> Name("reflect", "upper")
      [] f.cls = "Count" -> Name("count", "upper")
      [] OTHER -> Upper(f.name)

\* Expression.sql(dialect): dedicated function classes are rendered under
\* their upper-case SQL name, anonymous calls as written.
RenderFunc(f) == IF f.cls = "Anonymous" THEN f ELSE FuncNode(f.cls, Upper(f.name))

Render(ast) ==
    Text(ast.top, [i \in 1..Len(ast.funcs) |-> RenderFunc(ast.funcs[i])],
         ast.limit, ast.inner, ast.startsSelect, ast.kwSpace, ast.kwOther,
         ast.phrase, "canon")

\* ----------------------------------------------------------- SQLValidator
ValidationResult(status, query, errors, warnings, dialect) ==
    [ status |-> status, query |-> query, errors |-> errors,
      warnings |-> warnings, dialect |-> dialect ]

\* One validator error message: its kind, the function names it cites, and
\* the piece of the query text it quotes.
Err(code, names, text) == [code |-> code, names |-> names, text |-> text]

\* SQLValidator.__init__: the effective blocklist.
\* Mutant of SQLValidator__init__: the class attribute is used without copy().
SQLValidator__init__no_copy(default, extra) ==
    [blocked_functions |-> default \cup extra, default |-> default \cup extra]

\* SQLValidator.__init__: the blocklist of the new validator and what the
\* class attribute is afterwards (extra = {} for None or an empty set).
SQLValidator__init__(default, extra) ==
    [blocked_functions |-> default \cup extra, default |-> default]

blocked_functions(extra) == SQLValidator__init__(DANGEROUS_FUNCTIONS, extra).blocked_functions

\* Mutant of _is_select_statement: a deny-list classifier (everything that is
\* not a listed write is a select) whose list lacks Update and TruncateTable.
_is_select_statement_denylist(parsed) ==
    parsed.top \notin (WRITE_STATEMENTS \ {"Update", "TruncateTable"}) \cup {"Command"}

\* SQLValidator._is_select_statement
_is_select_statement(parsed) ==
    IF parsed.top = "Select" THEN TRUE
    ELSE IF parsed.top \in WRITE_STATEMENTS THEN FALSE
    ELSE IF parsed.top \in {"Union", "Intersect", "Except"} THEN TRUE
    ELSE parsed.top = "Subquery"

\* SQLValidator._find_dangerous_functions
_find_dangerous_functions(parsed, blocked) ==
    LET names == [i \in 1..Len(parsed.funcs) |-> Lower(sql_name(parsed.funcs[i]))]
    IN  SelectSeq(names, LAMBDA n : n \in blocked)

\* Mutant of _enforce_limit: the limit added to a statement without one is
\* one row above max_limit.
_enforce_limit_adds_one_more(parsed, max_limit) ==
    IF parsed.top # "Select" THEN [parsed |-> parsed, transformed |-> parsed]
    ELSE IF parsed.limit # {} THEN
        LET clamped == IF \E l \in parsed.limit : l > max_limit
                       THEN [parsed EXCEPT !.limit = {max_limit}] ELSE parsed
        IN  [parsed |-> clamped, transformed |-> clamped]
    ELSE IF parsed.inner # {} THEN
        LET clamped == IF \E l \in parsed.inner : l > max_limit
                       THEN [parsed EXCEPT !.inner = {max_limit}] ELSE parsed
        IN  [parsed |-> clamped, transformed |-> clamped]
    ELSE [parsed |-> parsed, transformed |-> [parsed EXCEPT !.limit = {max_limit + 1}]]

\* Mutant of _enforce_limit: the comparison with max_limit is turned round, so
\* a limit above max_limit is kept and a smaller one is raised to max_limit.
_enforce_limit_reversed(parsed, max_limit) ==
    IF parsed.top # "Select" THEN [parsed |-> parsed, transformed |-> parsed]
    ELSE IF parsed.limit # {} THEN
        LET clamped == IF \E l \in parsed.limit : l < max_limit
                       THEN [parsed EXCEPT !.limit = {max_limit}] ELSE parsed
        IN  [parsed |-> clamped, transformed |-> clamped]
    ELSE IF parsed.inner # {} THEN
        LET clamped == IF \E l \in parsed.inner : l < max_limit
                       THEN [parsed EXCEPT !.inner = {max_limit}] ELSE parsed
        IN  [parsed |-> clamped, transformed |-> clamped]
    ELSE [parsed |-> parsed, transformed |-> [parsed EXCEPT !.limit = {max_limit}]]

\* SQLValidator._enforce_limit.  parsed.find(exp.Limit) searches the whole
\* tree breadth-first, so it answers the top-level LIMIT when there is one
\* and else the LIMIT of a nested query.  Clamping assigns into that node of
\* the tree it was given; adding builds a copy (Select.limit copies).  The
\* result names both trees: `parsed` is the caller's tree after the call.
_enforce_limit(parsed, max_limit) ==
    IF parsed.top # "Select" THEN [parsed |-> parsed, transformed |-> parsed]
    ELSE IF parsed.limit # {} THEN
        LET clamped == IF \E l \in parsed.limit : l > max_limit
                       THEN [parsed EXCEPT !.limit = {max_limit}] ELSE parsed
        IN  [parsed |-> clamped, transformed |-> clamped]
    ELSE IF parsed.inner # {} THEN
        LET clamped == IF \E l \in parsed.inner : l > max_limit
                       THEN [parsed EXCEPT !.inner = {max_limit}] ELSE parsed
        IN  [parsed |-> clamped, transformed |-> clamped]
    ELSE [parsed |-> parsed, transformed |-> [parsed EXCEPT !.limit = {max_limit}]]

\* SQLValidator._validate_basic
_validate_basic(query, dialect) ==
    IF ~query.startsSelect
    THEN ValidationResult("unsafe", query, <<Err("must_start_select", <<>>, "")>>, <<>>, dialect)
    ELSE IF query.kwSpace \cap DISALLOWED_KEYWORDS # {}
    THEN ValidationResult("unsafe", query, <<Err("keyword_not_allowed", <<>>, "")>>, <<>>, dialect)
    ELSE ValidationResult("valid", query, <<>>, <<"basic_validation">>, dialect)

\* Mutant of validate: the statement is limited and rendered before it is
\* classified, so an Unsafe verdict carries the rewritten text.
validate_rewrites_rejected(query, dialect0, max_limit, extra) ==
    LET dialect == DIALECT_MAP(dialect0)
        parsed == Parse(query)
        unsafe_funcs == _find_dangerous_functions(parsed, blocked_functions(extra))
        lim == _enforce_limit(parsed, max_limit)
    IN  IF dialect \in BASIC_VALIDATION_DIALECTS THEN _validate_basic(query, dialect)
        ELSE IF query.top = "TokenError"
        THEN ValidationResult("raise", query, <<>>, <<>>, dialect)
        ELSE IF query.top \in {"ParseError", "Empty"}
        THEN ValidationResult("invalid", query, <<Err("syntax", <<>>, query.phrase)>>, <<>>, dialect)
        ELSE IF ~_is_select_statement(parsed)
        THEN ValidationResult("unsafe", Render(lim.transformed), <<Err("only_select", <<>>, "")>>, <<>>, dialect)
        ELSE IF unsafe_funcs # <<>>
        THEN ValidationResult("unsafe", Render(lim.transformed), <<Err("blocked", unsafe_funcs, "")>>, <<>>, dialect)
        ELSE ValidationResult("valid", Render(lim.transformed), <<>>,
                 IF lim.transformed # lim.parsed THEN <<"limit">> ELSE <<>>, dialect)

\* SQLValidator.validate, for a validator built with (dialect, max_limit,
\* blocked_functions = extra).  status "raise" stands for an exception that
\* leaves validate (sqlglot's TokenError is not a ParseError).
validate(query, dialect0, max_limit, extra) ==
    LET dialect == DIALECT_MAP(dialect0)
        parsed == Parse(query)
        unsafe_funcs == _find_dangerous_functions(parsed, blocked_functions(extra))
        lim == _enforce_limit(parsed, max_limit)
    IN  IF dialect \in BASIC_VALIDATION_DIALECTS THEN _validate_basic(query, dialect)
        ELSE IF query.top = "TokenError"
        THEN ValidationResult("raise", query, <<>>, <<>>, dialect)
        ELSE IF query.top \in {"ParseError", "Empty"}
        THEN ValidationResult("invalid", query, <<Err("syntax", <<>>, query.phrase)>>, <<>>, dialect)
        ELSE IF ~_is_select_statement(parsed)
        THEN ValidationResult("unsafe", query, <<Err("only_select", <<>>, "")>>, <<>>, dialect)
        ELSE IF unsafe_funcs # <<>>
        THEN ValidationResult("unsafe", query, <<Err("blocked", unsafe_funcs, "")>>, <<>>, dialect)
        ELSE ValidationResult("valid", Render(lim.transformed), <<>>,
                 IF lim.transformed # lim.parsed THEN <<"limit">> ELSE <<>>, dialect)

\* ------------------------------------------------ the data agent's nodes
\* The value of the `error` channel: tag is the fixed part of the message
\* ("None" is Python's None, "" the empty string), errors the validator
\* error list formatted into it.
ErrorVal(tag, errors) == [tag |-> tag, errors |-> errors]

NoError == ErrorVal("None", <<>>)

\* `not error`
Falsy(error) == error.tag \in {"None", ""}

\* `phrase in str(error)`
Contains(error, phrase) ==
    \/ phrase = "failed after" /\ error.tag = "Validation failed after"
    \/ phrase = "Max retries" /\ error.tag = "Max retries exceeded"
    \/ \E i \in 1..Len(error.errors) : error.errors[i].text = phrase

\* Mutant of BudgetSpent: the budget counts generation attempts, the first
\* one included, so it is spent one retry earlier.
BudgetSpent_counts_first_attempt(retry_count, max_retries) == retry_count + 1 >= max_retries

\* `if retry_count >= self._max_retries` in _validate_sql_query
BudgetSpent(retry_count, max_retries) == retry_count >= max_retries

\* Mutant of RetriesExceeded: retry_sql has no guard on the count.
RetriesExceeded_unguarded(retry_count, max_retries) == FALSE

\* `if retry_count > self._max_retries` in retry_sql, retry_count being the
\* state's count plus one.
RetriesExceeded(retry_count, max_retries) == retry_count > max_retries

\* Mutant of _validate_sql_query: the Valid branch stores the text it was
\* given instead of the validator's rewritten text.
_validate_sql_query_keeps_input(sql, retry_count, max_retries, dialect, max_rows, extra) ==
    LET r == validate(sql, dialect, max_rows, extra)
    IN  IF r.status = "valid"
        THEN [generated_sql |-> sql, validation_result |-> r, error |-> ErrorVal("", <<>>)]
        ELSE IF BudgetSpent(retry_count, max_retries)
        THEN [generated_sql |-> sql, validation_result |-> r,
              error |-> ErrorVal("Validation failed after", r.errors)]
        ELSE [generated_sql |-> sql, validation_result |-> r,
              error |-> ErrorVal("Validation error", r.errors)]

\* DataAgentNodes._validate_sql_query: the state update it returns
\* (generated_sql is written in the Valid branch only; elsewhere the field
\* repeats the value the state already has).
_validate_sql_query(sql, retry_count, max_retries, dialect, max_rows, extra) ==
    LET r == validate(sql, dialect, max_rows, extra)
    IN  IF r.status = "valid"
        THEN [generated_sql |-> r.query, validation_result |-> r, error |-> ErrorVal("", <<>>)]
        ELSE IF BudgetSpent(retry_count, max_retries)
        THEN [generated_sql |-> sql, validation_result |-> r,
              error |-> ErrorVal("Validation failed after", r.errors)]
        ELSE [generated_sql |-> sql, validation_result |-> r,
              error |-> ErrorVal("Validation error", r.errors)]

\* Mutant of _should_retry: every error is taken for a recoverable one.
_should_retry_always_retries(error) == IF Falsy(error) THEN "execute" ELSE "retry"

\* DataAgentGraph._should_retry
_should_retry(error) ==
    IF Falsy(error) THEN "execute"
    ELSE IF Contains(error, "failed after") \/ Contains(error, "Max retries") THEN "end"
    ELSE "retry"

\* Mutant of _route_after_execute: the error of the execution is not looked at.
_route_after_execute_ignores_error(error, visualization_requested) ==
    IF visualization_requested THEN "visualize" ELSE "respond"

\* DataAgentGraph._route_after_execute
_route_after_execute(error, visualization_requested) ==
    IF ~Falsy(error) THEN "error"
    ELSE IF visualization_requested THEN "visualize"
    ELSE "respond"

\* The edges DataAgentGraph.build adds after validate_sql and execute_query.
AfterValidate(error) ==
    CASE _should_retry(error) = "retry" -> "retry_sql"
      [] _should_retry(error) = "execute" -> "execute_query"
      [] OTHER -> "END"

AfterExecute(error, visualization_requested) ==
    CASE _route_after_execute(error, visualization_requested) = "error" -> "END"
      [] _route_after_execute(error, visualization_requested) = "visualize" -> "visualize_data"
      [] OTHER -> "generate_response"

\* "recursion_limit": 50 in the config DataAgentFlow.run invokes the graph with.
RecursionLimit == 50

\* ------------------------------------------------------------- the agents
\* DataAgentFlow.data_agents: the agents _initialize_agents created a
\* datasource and a data agent graph for.
data_agents == {"sales", "docs"}

\* DataAgentFlow._agent_descriptions: the catalogue the classifier is shown;
\* "archive" is configured with a datasource type no datasource is created
\* for, so it is described but has no graph.
agent_descriptions == data_agents \cup {"archive"}

\* Mutant of agent_names: the names are taken from the catalogue.
agent_names_from_descriptions == agent_descriptions

\* agent_names in DataAgentFlow._build_workflow: list(self.data_agents.keys())
agent_names == data_agents

\* DataAgentNodes._dialect of each agent ("docs" is backed by a CosmosAdapter).
AgentDialect(name) == IF name = "docs" THEN "cosmosdb" ELSE "postgres"

\* validation_config.max_rows of the agents: inside the range of the LIMIT
\* literals of Completions, so limits below and above it occur.
AgentMaxRows == MaxLimitVal - 1

\* What the intent classifier can answer after strip(): a name of the
\* catalogue, or some other text (here a registered name in another letter
\* case).
ClassifierOutputs == agent_descriptions \cup {"SALES"}

\* The query texts the language model answers generate_sql and retry_sql with
\* (after clean_sql_query).
Completions ==
    { Text("Select", <<>>, {}, {}, TRUE, {}, {}, "", "raw"),
      Text("Select", <<>>, {MaxLimitVal}, {}, TRUE, {}, {}, "", "raw"),
      Text("Select", <<>>, {}, {}, TRUE, {"UPDATE"}, {}, "", "raw"),
      Text("Union", <<>>, {}, {}, TRUE, {}, {}, "", "raw"),
      Text("Select", <<FuncNode("Anonymous", Name("pg_sleep", "mixed"))>>, {}, {}, TRUE, {}, {}, "", "raw"),
      Text("Select", <<FuncNode("Reflect", Name("reflect", "upper"))>>, {}, {}, TRUE, {}, {}, "", "raw"),
      Text("Insert", <<>>, {}, {}, FALSE, {}, {}, "", "raw"),
      Text("ParseError", <<>>, {}, {}, TRUE, {}, {}, "", "raw"),
      Text("ParseError", <<>>, {}, {}, TRUE, {}, {}, "failed after", "raw"),
      Text("ParseError", <<>>, {}, {}, FALSE, {}, {}, "Max retries", "raw"),
      Text("TokenError", <<>>, {}, {}, TRUE, {}, {}, "", "raw"),
      EmptyText }

\* A question: the n-th one asked on the thread, as asked, as clarified by the
\* caller on resume ("" is an empty clarification), or as rewritten.
Question(n, form) == [n |-> n, form |-> form]

\* The payload intent_detection_node hands to interrupt().
InterruptPayload(question) ==
    [ type |-> "clarification_needed", original_question |-> question,
      hint |-> "Try being more specific about what data you're looking for." ]

NoInterrupt == [type |-> "", original_question |-> Question(0, ""), hint |-> ""]

\* Mutant of route_after_intent: every question goes on to the rewrite step.
route_after_intent_always_rewrites(datasource, error) == "query_rewrite"

\* route_after_intent in DataAgentFlow._build_workflow
route_after_intent(datasource, error) ==
    IF datasource = "" \/ error.tag = "out_of_scope" THEN "out_of_scope" ELSE "query_rewrite"

\* route_to_agent in DataAgentFlow._build_workflow
route_to_agent(datasource, error) ==
    IF datasource = "" \/ error.tag = "out_of_scope" THEN "out_of_scope" ELSE datasource

\* Mutant of InputState: retry_count is an input key, so a data agent graph
\* starts from the count the thread holds.
InputState_with_retry_count == {"question", "datasource_name", "retry_count"}

\* InputState: the keys a graph run is started with; run() passes exactly
\* these, and a routed data agent graph reads these keys alone.
InputState == {"question", "datasource_name"}

\* The value a key of AgentState has when a data agent graph starts:
\* the caller's value for a key of InputState, unset otherwise.
StartValue(key, carried, unset) == IF key \in InputState THEN carried ELSE unset

\* ------------------------------------ conversations keyed by thread id
\* The thread ids of the conversations run on one DataAgentFlow.
Threads == {"a", "b"}

\* The state the checkpointer keeps for one thread id.
ThreadState(pc_, node_, question_, resume_, datasource_, retry_, error_, sql_, pending_, messages_) ==
    [ pc |-> pc_, node |-> node_, question |-> question_, resume |-> resume_,
      datasource_name |-> datasource_, retry_count |-> retry_, error |-> error_,
      generated_sql |-> sql_, pending |-> pending_, messages |-> messages_ ]

NewThread ==
    ThreadState("idle", "", Question(0, ""), Question(0, ""), "", 0, NoError,
                EmptyText, NoInterrupt, <<>>)

\* The state the graph is invoked on: the checkpoint of
\* config["configurable"]["thread_id"].
Checkpoint(checkpoints, thread_id) == checkpoints[thread_id]

\* Mutant of Put: every conversation writes one and the same checkpoint.
Put_one_checkpoint(checkpoints, thread_id, s) == [t \in DOMAIN checkpoints |-> s]

\* The state written back under the thread id after a step.
Put(checkpoints, thread_id, s) == [checkpoints EXCEPT ![thread_id] = s]

\* The query texts the completion answers with in the conversations below.
ThreadCompletions ==
    { Text("Select", <<>>, {MaxLimitVal}, {}, TRUE, {}, {}, "", "raw"),
      Text("Insert", <<>>, {}, {}, FALSE, {}, {}, "", "raw") }

\* --------------------------------------------------------------- variables
VARIABLES
    \* SQLValidator called on its own
    vquery,     \* the text handed to validate
    vdialect,   \* the validator's dialect argument
    vmax,       \* the validator's max_limit
    vextra,     \* the validator's blocked_functions argument
    vresult,    \* what validate returned
    vdone,      \* whether validate has been called
    vprevious,  \* the verdict of the call before, when validate was called on its own output
    \* configuration
    max_retries,        \* AgentConfig.max_retries
    \* the conversation thread (state of the data_agent_flow graph)
    pc,                 \* where the run of the thread stands
    question,           \* AgentState.question
    datasource_name,    \* AgentState.datasource_name
    t_error,            \* AgentState.error of the thread
    t_result,           \* AgentState.result of the thread
    t_final_response,   \* AgentState.final_response of the thread
    pending,            \* the interrupt payload a suspended run returned
    resume,             \* the resume value of the run in progress
    asked,              \* questions asked so far
    \* the routed data agent's graph (state of data_agent_graph)
    node,               \* the node that runs next
    generated_sql,
    retry_count,
    error,
    validation_result,
    result,
    final_response,
    steps,              \* supersteps of the data agent graph in this run
    \* observation (history of the current question)
    lastNode,           \* the data agent node that ran last
    lastVerdict,        \* status of the verdict of the last validate_sql step
    genCalls,           \* completion calls made for query generation
    validations,        \* validate_sql steps
    executed,           \* the texts handed to the datasource, in order
    classified,         \* the classifier's answers, in order
    interrupts,         \* clarification interrupts raised
    prevSpent,          \* the thread's previous data agent run used up its retries
    vizFlag,            \* visualization_requested of the last completion's output
    \* several conversations on one DataAgentFlow
    store,              \* the checkpointer: thread id -> state of that thread
    \* what the visualization node writes
    visualization_error,
    visualization_image,
    \* SQLValidator objects
    class_blocklist,    \* SQLValidator.DANGEROUS_FUNCTIONS, the class attribute
    validators          \* the validators constructed, in order

vvars == <<vquery, vdialect, vmax, vextra, vresult, vdone, vprevious>>

tvars == <<pc, question, datasource_name, t_error, t_result,
           t_final_response, pending, resume, asked>>

gvars == <<node, generated_sql, retry_count, error, validation_result, result,
           final_response, steps>>

hvars == <<lastNode, lastVerdict, genCalls, validations, executed, classified, interrupts>>

ovars == <<prevSpent, vizFlag>>

bvars == <<class_blocklist, validators>>

zvars == <<visualization_error, visualization_image>>

vars == <<vvars, max_retries, tvars, gvars, hvars, ovars, store, zvars, bvars>>

Dialects == {"postgres", "mssql", "cosmosdb"}

\* ValidationConfig.blocked_functions: the names added by configuration, in
\* the letter case the configuration spells them.
ExtraBlocklists == {{}, {Name("my_udf", "lower")}, {Name("count", "upper")}}

NoResult == ValidationResult("none", EmptyText, <<>>, <<>>, "")

\* The state of a data agent graph before its first node: langgraph starts
\* the graph of a routed agent from the keys of InputState alone.
GraphFresh ==
    /\ node = "generate_sql"
    /\ generated_sql = EmptyText
    /\ retry_count = 0
    /\ error = NoError
    /\ validation_result = NoResult
    /\ result = "unset"
    /\ final_response = "unset"
    /\ steps = 0
    /\ visualization_error = "unset"
    /\ visualization_image = "unset"

HistoryFresh ==
    /\ lastNode = ""
    /\ lastVerdict = "none"
    /\ genCalls = 0
    /\ validations = 0
    /\ executed = <<>>
    /\ classified = <<>>
    /\ interrupts = 0
    /\ prevSpent = FALSE
    /\ vizFlag = FALSE

\* A thread nobody has asked anything on.
ThreadFresh ==
    /\ pc = "idle"
    /\ question = Question(0, "")
    /\ datasource_name = ""
    /\ t_error = NoError
    /\ t_result = "unset"
    /\ t_final_response = "unset"
    /\ pending = NoInterrupt
    /\ resume = Question(0, "")
    /\ asked = 0
    /\ store = [t \in Threads |-> NewThread]

ValidatorIdle ==
    /\ vquery = EmptyText
    /\ vdialect = "postgres"
    /\ vmax = MaxLimitVal
    /\ vextra = {}
    /\ vresult = NoResult
    /\ vdone = FALSE
    /\ vprevious = NoResult
    /\ class_blocklist = DANGEROUS_FUNCTIONS
    /\ validators = <<>>

\* --------------------------------------------- the validator on its own
InitV ==
    /\ vquery \in Texts
    /\ vdialect \in Dialects
    /\ vmax \in 1..MaxLimitVal
    /\ vextra \in ExtraBlocklists
    /\ vresult = NoResult
    /\ vdone = FALSE
    /\ vprevious = NoResult
    /\ class_blocklist = DANGEROUS_FUNCTIONS
    /\ validators = <<>>
    /\ max_retries = MaxBudget
    /\ ThreadFresh
    /\ GraphFresh
    /\ HistoryFresh

CallValidate ==
    /\ UNCHANGED <<ovars, store, zvars, bvars>>
    /\ ~vdone
    /\ vresult' = validate(vquery, vdialect, vmax, vextra)
    /\ vdone' = TRUE
    /\ UNCHANGED <<vquery, vdialect, vmax, vextra, vprevious, max_retries, tvars, gvars, hvars>>

\* validate called by the same validator on the text its Valid verdict carries.
Revalidate ==
    /\ vdone
    /\ vprevious = NoResult
    /\ vresult.status = "valid"
    /\ vprevious' = vresult
    /\ vquery' = vresult.query
    /\ vresult' = validate(vresult.query, vdialect, vmax, vextra)
    /\ UNCHANGED <<vdialect, vmax, vextra, vdone>>
    /\ UNCHANGED <<max_retries, tvars, gvars, hvars, ovars, store, zvars, bvars>>

NextV ==
    \/ CallValidate
    \/ Revalidate

SpecV == InitV /\ [][NextV]_vars

\* ------------------------------------ constructing and using validators
InitB ==
    /\ ValidatorIdle
    /\ max_retries = MaxBudget
    /\ ThreadFresh
    /\ GraphFresh
    /\ HistoryFresh

\* SQLValidator(dialect, max_limit, blocked_functions): one more validator.
Construct ==
    /\ Len(validators) < MaxValidators
    /\ \E extra \in ExtraBlocklists :
          LET v == SQLValidator__init__(class_blocklist, extra)
          IN  /\ validators' = Append(validators,
                     [extra |-> extra, blocked_functions |-> v.blocked_functions])
              /\ class_blocklist' = v.default
    /\ UNCHANGED <<vvars, max_retries, tvars, gvars, hvars, ovars, store, zvars>>

\* validate called on one of the validators constructed: its blocklist is
\* read, nothing of a validator is written.
UseValidator ==
    /\ \E i \in 1..Len(validators) : \E q \in Completions :
          /\ vquery' = q
          /\ vextra' = validators[i].extra
          /\ vresult' = validate(q, vdialect, vmax, validators[i].extra)
    /\ vdone' = TRUE
    /\ UNCHANGED <<vdialect, vmax, vprevious, bvars>>
    /\ UNCHANGED <<max_retries, tvars, gvars, hvars, ovars, store, zvars>>

NextB ==
    \/ Construct
    \/ UseValidator

SpecB == InitB /\ [][NextB]_vars

\* ------------------------------------------ the conversation thread
Init ==
    /\ ValidatorIdle
    /\ max_retries \in 1..MaxBudget
    /\ ThreadFresh
    /\ GraphFresh
    /\ HistoryFresh

ResetHistory ==
    /\ lastNode' = ""
    /\ lastVerdict' = "none"
    /\ genCalls' = 0
    /\ validations' = 0
    /\ executed' = <<>>
    /\ classified' = <<>>
    /\ interrupts' = 0

Resuming == resume.n > 0

\* One answer of the intent classifier: the question it was asked about and
\* the whitespace-trimmed answer.
Classified(q, answer) == [on |-> q, answer |-> answer]

\* DataAgentFlow.run(question, thread_id): a new question on the thread.  The
\* input writes question and datasource_name; every other channel of the
\* thread keeps its checkpointed value.  A pending interrupt is dropped.
Ask ==
    /\ prevSpent' = (retry_count >= max_retries)
    /\ vizFlag' = FALSE
    /\ UNCHANGED <<store, zvars, bvars>>
    /\ pc \in {"idle", "returned", "raised", "suspended"}
    /\ asked < MaxQuestions
    /\ asked' = asked + 1
    /\ question' = Question(asked + 1, "asked")
    /\ datasource_name' = ""
    /\ pending' = NoInterrupt
    /\ resume' = Question(0, "")
    /\ pc' = "intent_detection"
    /\ ResetHistory
    /\ UNCHANGED <<t_error, t_result, t_final_response>>
    /\ UNCHANGED <<vvars, max_retries, gvars>>

\* DataAgentFlow.run(resume_value = {"question": ...}, thread_id) on a
\* suspended thread: langgraph runs intent_detection_node again from its
\* first line, and interrupt() then answers the resume value.
Resume ==
    /\ UNCHANGED <<ovars, store, zvars, bvars>>
    /\ pc = "suspended"
    /\ \E form \in {"clarified", ""} : resume' = Question(question.n, form)
    /\ pending' = NoInterrupt
    /\ pc' = "intent_detection"
    /\ UNCHANGED <<question, datasource_name, t_error, t_result,
                   t_final_response, asked>>
    /\ UNCHANGED <<vvars, max_retries, gvars, hvars>>

\* intent_detection_node: the classifier names a registered agent for the
\* question in the state (on a first run or on the re-run of a resume).
IntentRouted ==
    /\ UNCHANGED <<ovars, store, zvars, bvars>>
    /\ pc = "intent_detection"
    /\ \E c \in agent_names :
          /\ classified' = Append(classified, Classified(question, c))
          /\ datasource_name' = c
          /\ t_error' = NoError
          /\ pc' = route_after_intent(c, NoError)
    /\ resume' = Question(0, "")
    /\ UNCHANGED <<question, t_result, t_final_response, pending, asked>>
    /\ UNCHANGED <<vvars, max_retries, gvars>>
    /\ UNCHANGED <<lastNode, lastVerdict, genCalls, validations, executed, interrupts>>

\* intent_detection_node: no registered agent named and no resume value:
\* interrupt() suspends the run and run() returns the payload.
IntentInterrupt ==
    /\ UNCHANGED <<ovars, store, zvars, bvars>>
    /\ pc = "intent_detection"
    /\ ~Resuming
    /\ \E c \in ClassifierOutputs \ agent_names :
          classified' = Append(classified, Classified(question, c))
    /\ pending' = InterruptPayload(question)
    /\ interrupts' = interrupts + 1
    /\ pc' = "suspended"
    /\ UNCHANGED <<question, datasource_name, t_error, t_result,
                   t_final_response, resume, asked>>
    /\ UNCHANGED <<vvars, max_retries, gvars>>
    /\ UNCHANGED <<lastNode, lastVerdict, genCalls, validations, executed>>

\* intent_detection_node on resume: the question in the state is classified
\* again without a match, interrupt() answers a non-empty clarified question,
\* and the classifier names a registered agent for it.
IntentClarifiedRouted ==
    /\ UNCHANGED <<ovars, store, zvars, bvars>>
    /\ pc = "intent_detection"
    /\ Resuming
    /\ resume.form # ""
    /\ \E c1 \in ClassifierOutputs \ agent_names : \E c2 \in agent_names :
          /\ classified' = classified \o <<Classified(question, c1), Classified(resume, c2)>>
          /\ datasource_name' = c2
          /\ t_error' = NoError
          /\ pc' = route_after_intent(c2, NoError)
    /\ question' = resume
    /\ resume' = Question(0, "")
    /\ UNCHANGED <<t_result, t_final_response, pending, asked>>
    /\ UNCHANGED <<vvars, max_retries, gvars>>
    /\ UNCHANGED <<lastNode, lastVerdict, genCalls, validations, executed, interrupts>>

\* Mutant of IntentOutOfScope: an unmatched clarified question is answered
\* with another interrupt instead of selected_agent = None.
IntentOutOfScope_interrupts_again ==
    /\ UNCHANGED <<ovars, store, zvars, bvars>>
    /\ pc = "intent_detection"
    /\ Resuming
    /\ \E c1 \in ClassifierOutputs \ agent_names :
          \/ /\ resume.form = ""
             /\ classified' = Append(classified, Classified(question, c1))
          \/ /\ resume.form # ""
             /\ \E c2 \in ClassifierOutputs \ agent_names :
                   classified' = classified \o <<Classified(question, c1), Classified(resume, c2)>>
    /\ pending' = InterruptPayload(question)
    /\ interrupts' = interrupts + 1
    /\ pc' = "suspended"
    /\ resume' = Question(0, "")
    /\ UNCHANGED <<question, datasource_name, t_error, t_result, t_final_response, asked>>
    /\ UNCHANGED <<vvars, max_retries, gvars>>
    /\ UNCHANGED <<lastNode, lastVerdict, genCalls, validations, executed>>

\* intent_detection_node on resume: the clarified question is empty, or the
\* classifier names no registered agent for it either: selected_agent = None.
IntentOutOfScope ==
    /\ UNCHANGED <<ovars, store, zvars, bvars>>
    /\ pc = "intent_detection"
    /\ Resuming
    /\ \E c1 \in ClassifierOutputs \ agent_names :
          \/ /\ resume.form = ""
             /\ classified' = Append(classified, Classified(question, c1))
          \/ /\ resume.form # ""
             /\ \E c2 \in ClassifierOutputs \ agent_names :
                   classified' = classified \o <<Classified(question, c1), Classified(resume, c2)>>
    /\ datasource_name' = ""
    /\ t_error' = ErrorVal("out_of_scope", <<>>)
    /\ pc' = route_after_intent("", ErrorVal("out_of_scope", <<>>))
    /\ resume' = Question(0, "")
    /\ UNCHANGED <<question, t_result, t_final_response, pending, asked>>
    /\ UNCHANGED <<vvars, max_retries, gvars>>
    /\ UNCHANGED <<lastNode, lastVerdict, genCalls, validations, executed, interrupts>>

\* query_rewrite_node, then route_to_agent: the routed agent's graph starts
\* from InputState (question, datasource_name) with every other key unset.
QueryRewrite ==
    /\ UNCHANGED <<ovars, store, bvars>>
    /\ visualization_error' = StartValue("visualization_error", visualization_error, "unset")
    /\ visualization_image' = StartValue("visualization_image", visualization_image, "unset")
    /\ pc = "query_rewrite"
    /\ question' = Question(question.n, "rewritten")
    /\ pc' = IF route_to_agent(datasource_name, t_error) = "out_of_scope"
             THEN "out_of_scope" ELSE "data_agent"
    /\ node' = "generate_sql"
    /\ generated_sql' = StartValue("generated_sql", generated_sql, EmptyText)
    /\ retry_count' = StartValue("retry_count", retry_count, 0)
    /\ error' = StartValue("error", error, NoError)
    /\ validation_result' = StartValue("validation_result", validation_result, NoResult)
    /\ result' = StartValue("result", result, "unset")
    /\ final_response' = StartValue("final_response", final_response, "unset")
    /\ steps' = 0
    /\ UNCHANGED <<datasource_name, t_error, t_result, t_final_response,
                   pending, resume, asked>>
    /\ UNCHANGED <<vvars, max_retries, hvars>>

\* out_of_scope_node, then END: run() returns.
OutOfScope ==
    /\ UNCHANGED <<ovars, store, zvars, bvars>>
    /\ pc = "out_of_scope"
    /\ t_final_response' = "out_of_scope_response"
    /\ t_error' = ErrorVal("out_of_scope", <<>>)
    /\ pc' = "returned"
    /\ UNCHANGED <<question, datasource_name, t_result, pending, resume, asked>>
    /\ UNCHANGED <<vvars, max_retries, gvars, hvars>>

\* ---------------------------------------------- the data agent graph
\* One superstep of the data agent graph: node n runs.
Superstep(n) ==
    /\ pc = "data_agent"
    /\ node = n
    /\ steps < RecursionLimit
    /\ steps' = steps + 1
    /\ lastNode' = n

\* DataAgentNodes.generate_sql: one completion call; the cleaned text is stored.
GenerateSql ==
    /\ vizFlag' \in BOOLEAN
    /\ UNCHANGED <<prevSpent, store, zvars, bvars>>
    /\ Superstep("generate_sql")
    /\ \E sql \in Completions : generated_sql' = sql
    /\ genCalls' = genCalls + 1
    /\ node' = "validate_sql"
    /\ UNCHANGED <<retry_count, error, validation_result, result, final_response>>
    /\ UNCHANGED <<vvars, max_retries, tvars>>
    /\ UNCHANGED <<lastVerdict, validations, executed, classified, interrupts>>

\* DataAgentNodes.validate_sql with an empty generated_sql.
ValidateSqlNoQuery ==
    /\ UNCHANGED <<ovars, store, zvars, bvars>>
    /\ Superstep("validate_sql")
    /\ generated_sql = EmptyText
    /\ error' = ErrorVal("No query to validate", <<>>)
    /\ node' = AfterValidate(error')
    /\ validations' = validations + 1
    /\ lastVerdict' = "none"
    /\ UNCHANGED <<generated_sql, retry_count, validation_result, result, final_response>>
    /\ UNCHANGED <<vvars, max_retries, tvars>>
    /\ UNCHANGED <<genCalls, executed, classified, interrupts>>

\* DataAgentNodes.validate_sql -> _validate_sql_query, SQLValidator.validate
\* returning a verdict.
ValidateSql ==
    /\ UNCHANGED <<ovars, store, zvars, bvars>>
    /\ Superstep("validate_sql")
    /\ generated_sql # EmptyText
    /\ LET u == _validate_sql_query(generated_sql, retry_count, max_retries,
                                    AgentDialect(datasource_name), AgentMaxRows, {})
       IN  /\ u.validation_result.status # "raise"
           /\ generated_sql' = u.generated_sql
           /\ validation_result' = u.validation_result
           /\ error' = u.error
           /\ lastVerdict' = u.validation_result.status
    /\ node' = AfterValidate(error')
    /\ validations' = validations + 1
    /\ UNCHANGED <<retry_count, result, final_response>>
    /\ UNCHANGED <<vvars, max_retries, tvars>>
    /\ UNCHANGED <<genCalls, executed, classified, interrupts>>

\* DataAgentNodes.validate_sql when SQLValidator.validate raises: nothing in
\* the node or the graph catches it, so it leaves DataAgentFlow.run.
ValidateSqlRaises ==
    /\ UNCHANGED <<ovars, store, zvars, bvars>>
    /\ pc = "data_agent"
    /\ node = "validate_sql"
    /\ steps < RecursionLimit
    /\ generated_sql # EmptyText
    /\ validate(generated_sql, AgentDialect(datasource_name), AgentMaxRows, {}).status = "raise"
    /\ pc' = "raised"
    /\ UNCHANGED <<question, datasource_name, t_error, t_result,
                   t_final_response, pending, resume, asked>>
    /\ UNCHANGED <<vvars, max_retries, gvars, hvars>>

\* DataAgentNodes.retry_sql: retries remain, one more completion call.
RetrySql ==
    /\ vizFlag' \in BOOLEAN
    /\ UNCHANGED <<prevSpent, store, zvars, bvars>>
    /\ Superstep("retry_sql")
    /\ ~RetriesExceeded(retry_count + 1, max_retries)
    /\ \E sql \in Completions : generated_sql' = sql
    /\ error' = NoError
    /\ retry_count' = retry_count + 1
    /\ genCalls' = genCalls + 1
    /\ node' = "validate_sql"
    /\ UNCHANGED <<validation_result, result, final_response>>
    /\ UNCHANGED <<vvars, max_retries, tvars>>
    /\ UNCHANGED <<lastVerdict, validations, executed, classified, interrupts>>

\* DataAgentNodes.retry_sql: `retry_count > self._max_retries`, no completion
\* call; the edge retry_sql -> validate_sql is taken all the same.
RetrySqlRefused ==
    /\ UNCHANGED <<ovars, store, zvars, bvars>>
    /\ Superstep("retry_sql")
    /\ RetriesExceeded(retry_count + 1, max_retries)
    /\ error' = ErrorVal("Max retries exceeded", <<>>)
    /\ node' = "validate_sql"
    /\ UNCHANGED <<generated_sql, retry_count, validation_result, result, final_response>>
    /\ UNCHANGED <<vvars, max_retries, tvars>>
    /\ UNCHANGED <<lastVerdict, genCalls, validations, executed, classified, interrupts>>

\* DataAgentNodes.execute_query: the datasource answers or raises.  No node
\* of the graph writes visualization_requested, so the route reads its default.
ExecuteQuery ==
    /\ UNCHANGED <<ovars, store, zvars, bvars>>
    /\ Superstep("execute_query")
    /\ IF generated_sql = EmptyText
       THEN /\ error' = ErrorVal("No query to execute", <<>>)
            /\ UNCHANGED <<result, executed>>
       ELSE /\ executed' = Append(executed, generated_sql)
            /\ \/ result' = "rows" /\ UNCHANGED error
               \/ error' = ErrorVal("Query execution failed", <<>>) /\ UNCHANGED result
    /\ node' = AfterExecute(error', FALSE)
    /\ UNCHANGED <<generated_sql, retry_count, validation_result, final_response>>
    /\ UNCHANGED <<vvars, max_retries, tvars>>
    /\ UNCHANGED <<lastVerdict, genCalls, validations, classified, interrupts>>

\* ResponseNode.generate_response
GenerateResponse ==
    /\ UNCHANGED <<ovars, store, zvars, bvars>>
    /\ Superstep("generate_response")
    /\ final_response' = "response"
    /\ node' = "END"
    /\ UNCHANGED <<generated_sql, retry_count, error, validation_result, result>>
    /\ UNCHANGED <<vvars, max_retries, tvars>>
    /\ UNCHANGED <<lastVerdict, genCalls, validations, executed, classified, interrupts>>

\* What the language model and the code executor do in one run of the
\* visualization node: an image, no code in the answer, a failed or timed
\* out execution, an execution without image, or an exception.
VizOutcomes == {"image", "no_code", "exec_failed", "no_image", "raised"}

\* A state update a node returns: the value it writes for key, or the
\* state's value when the update has no such key.
Written(update, key, old) == IF key \in DOMAIN update THEN update[key] ELSE old

\* Mutant of generate_visualization: a failure is reported in the error
\* field as well.
generate_visualization_sets_error(result_, outcome) ==
    IF result_ \in {"unset", "no_rows"} \/ outcome # "image"
    THEN [visualization_error |-> "failed", error |-> ErrorVal("Visualization failed", <<>>)]
    ELSE [visualization_image |-> "png"]

\* VisualizationNode.generate_visualization: the state update it returns.
generate_visualization(result_, outcome) ==
    IF result_ \in {"unset", "no_rows"}
    THEN [visualization_error |-> "No data to visualize"]
    ELSE CASE outcome = "image" -> [visualization_image |-> "png"]
           [] outcome = "no_code" ->
                [visualization_error |-> "Failed to generate visualization code"]
           [] outcome = "no_image" -> [visualization_error |-> "Code executed but no image"]
           [] outcome = "exec_failed" -> [visualization_error |-> "exec_result.error"]
           [] OTHER -> [visualization_error |-> "str(e)"]

\* The node visualize_data, then the edge visualize_data -> generate_response.
VisualizeData ==
    /\ Superstep("visualize_data")
    /\ \E outcome \in VizOutcomes :
          LET u == generate_visualization(result, outcome)
          IN  /\ visualization_error' = Written(u, "visualization_error", visualization_error)
              /\ visualization_image' = Written(u, "visualization_image", visualization_image)
              /\ error' = Written(u, "error", error)
              /\ result' = Written(u, "result", result)
              /\ generated_sql' = Written(u, "generated_sql", generated_sql)
    /\ node' = "generate_response"
    /\ UNCHANGED <<retry_count, validation_result, final_response>>
    /\ UNCHANGED <<vvars, max_retries, tvars, ovars, store, bvars>>
    /\ UNCHANGED <<lastVerdict, genCalls, validations, executed, classified, interrupts>>

\* The data agent graph reached END: the keys it wrote are merged into the
\* thread's state and run() returns an OutputState.
AgentEnd ==
    /\ UNCHANGED <<ovars, store, zvars, bvars>>
    /\ pc = "data_agent"
    /\ node = "END"
    /\ t_error' = error
    /\ t_result' = IF result = "unset" THEN t_result ELSE result
    /\ t_final_response' = IF final_response = "unset" THEN t_final_response ELSE final_response
    /\ pc' = "returned"
    /\ UNCHANGED <<question, datasource_name, pending, resume, asked>>
    /\ UNCHANGED <<vvars, max_retries, gvars, hvars>>

\* langgraph: the graph did not reach END within recursion_limit supersteps;
\* GraphRecursionError leaves DataAgentFlow.run.
RecursionError ==
    /\ UNCHANGED <<ovars, store, zvars, bvars>>
    /\ pc = "data_agent"
    /\ node # "END"
    /\ steps >= RecursionLimit
    /\ pc' = "raised"
    /\ UNCHANGED <<question, datasource_name, t_error, t_result,
                   t_final_response, pending, resume, asked>>
    /\ UNCHANGED <<vvars, max_retries, gvars, hvars>>

Next ==
    \/ Ask
    \/ Resume
    \/ IntentRouted
    \/ IntentInterrupt
    \/ IntentClarifiedRouted
    \/ IntentOutOfScope
    \/ QueryRewrite
    \/ OutOfScope
    \/ GenerateSql
    \/ ValidateSqlNoQuery
    \/ ValidateSql
    \/ ValidateSqlRaises
    \/ RetrySql
    \/ RetrySqlRefused
    \/ ExecuteQuery
    \/ GenerateResponse
    \/ AgentEnd
    \/ RecursionError

Spec == Init /\ [][Next]_vars

\* ------------------------------------ the visualization step on its own
\* The states a data agent graph can hand to visualize_data: a validated
\* query was executed without error and _route_after_execute read a set
\* visualization_requested; the result is whatever the datasource returned.
InitVz ==
    /\ ValidatorIdle
    /\ max_retries \in 1..MaxBudget
    /\ pc = "data_agent"
    /\ question = Question(1, "rewritten")
    /\ datasource_name \in agent_names
    /\ t_error = NoError
    /\ t_result = "unset"
    /\ t_final_response = "unset"
    /\ pending = NoInterrupt
    /\ resume = Question(0, "")
    /\ asked = 1
    /\ store = [t \in Threads |-> NewThread]
    /\ node = AfterExecute(ErrorVal("", <<>>), TRUE)
    /\ retry_count \in 0..max_retries
    /\ \E sql \in Completions \ {EmptyText} :
          LET u == _validate_sql_query(sql, retry_count, max_retries,
                                       AgentDialect(datasource_name), AgentMaxRows, {})
          IN  /\ u.validation_result.status = "valid"
              /\ generated_sql = u.generated_sql
              /\ validation_result = u.validation_result
              /\ error = u.error
    /\ result \in {"unset", "no_rows", "rows"}
    /\ final_response = "unset"
    /\ steps = 3 + 2 * retry_count
    /\ visualization_error = "unset"
    /\ visualization_image = "unset"
    /\ lastNode = "execute_query"
    /\ lastVerdict = "valid"
    /\ genCalls = retry_count + 1
    /\ validations = retry_count + 1
    /\ executed = <<generated_sql>>
    /\ classified = <<Classified(Question(1, "asked"), datasource_name)>>
    /\ interrupts = 0
    /\ prevSpent = FALSE
    /\ vizFlag = TRUE

NextVz ==
    \/ VisualizeData
    \/ GenerateResponse
    \/ AgentEnd

SpecVz == InitVz /\ [][NextVz]_vars

\* ----------------------- two conversations on one DataAgentFlow instance
\* Each operator below gives the states one step can leave a thread in, as
\* the node computes it from the state it is handed and the configuration.

\* DataAgentFlow.run(question, thread_id) on a thread not yet used.
AskSteps(s) ==
    IF s.pc # "idle" THEN {}
    ELSE { [s EXCEPT !.pc = "intent_detection", !.question = Question(1, "asked"),
                     !.datasource_name = ""] }

\* DataAgentFlow.run(resume_value, thread_id) on a suspended thread.
ResumeSteps(s) ==
    IF s.pc # "suspended" THEN {}
    ELSE { [s EXCEPT !.pc = "intent_detection", !.pending = NoInterrupt,
                     !.resume = Question(1, form)] : form \in {"clarified", ""} }

\* What intent_detection_node returns when it names agent c for question q.
Routed(s, q, c) ==
    [s EXCEPT !.question = q, !.datasource_name = c, !.error = NoError,
              !.resume = Question(0, ""),
              !.messages = s.messages \o <<"user", "intent_detector">>,
              !.pc = route_after_intent(c, NoError)]

\* What intent_detection_node returns with selected_agent = None.
Unrouted(s) ==
    [s EXCEPT !.datasource_name = "", !.error = ErrorVal("out_of_scope", <<>>),
              !.resume = Question(0, ""),
              !.messages = s.messages \o <<"user", "intent_detector">>,
              !.pc = route_after_intent("", ErrorVal("out_of_scope", <<>>))]

\* intent_detection_node, first run or re-run on resume.
IntentSteps(s) ==
    IF s.pc # "intent_detection" THEN {}
    ELSE { Routed(s, s.question, c) : c \in ClassifierOutputs \cap agent_names }
         \cup
         ( IF ClassifierOutputs \ agent_names = {} THEN {}
           ELSE IF s.resume.n = 0
           THEN { [s EXCEPT !.pc = "suspended", !.pending = InterruptPayload(s.question)] }
           ELSE IF s.resume.form = ""
           THEN { Unrouted(s) }
           ELSE { Routed(s, s.resume, c) : c \in ClassifierOutputs \cap agent_names }
                \cup { Unrouted(s) } )

\* query_rewrite_node and the start of the routed data agent graph.
RewriteSteps(s) ==
    IF s.pc # "query_rewrite" THEN {}
    ELSE { [s EXCEPT !.question = Question(s.question.n, "rewritten"),
                     !.messages = s.messages \o <<"query_rewriter">>,
                     !.pc = "data_agent", !.node = "generate_sql",
                     !.retry_count = StartValue("retry_count", s.retry_count, 0),
                     !.generated_sql = StartValue("generated_sql", s.generated_sql, EmptyText)] }

\* out_of_scope_node
OutOfScopeSteps(s) ==
    IF s.pc # "out_of_scope" THEN {}
    ELSE { [s EXCEPT !.error = ErrorVal("out_of_scope", <<>>),
                     !.messages = s.messages \o <<"out_of_scope">>, !.pc = "returned"] }

\* One node of the routed data agent graph, or its END.
NodeSteps(s) ==
    IF s.pc # "data_agent" THEN {}
    ELSE CASE s.node = "generate_sql" ->
              { [s EXCEPT !.generated_sql = sql, !.node = "validate_sql",
                          !.messages = s.messages \o <<"sql_generator">>] :
                  sql \in ThreadCompletions }
           [] s.node = "validate_sql" ->
              IF s.generated_sql = EmptyText
              THEN { [s EXCEPT !.error = ErrorVal("No query to validate", <<>>),
                               !.node = AfterValidate(ErrorVal("No query to validate", <<>>))] }
              ELSE LET u == _validate_sql_query(s.generated_sql, s.retry_count, max_retries,
                                                AgentDialect(s.datasource_name), AgentMaxRows, {})
                   IN  { [s EXCEPT !.generated_sql = u.generated_sql, !.error = u.error,
                                   !.node = AfterValidate(u.error),
                                   !.messages = s.messages \o <<"sql_validator">>] }
           [] s.node = "retry_sql" ->
              IF RetriesExceeded(s.retry_count + 1, max_retries)
              THEN { [s EXCEPT !.error = ErrorVal("Max retries exceeded", <<>>),
                               !.node = "validate_sql"] }
              ELSE { [s EXCEPT !.generated_sql = sql, !.error = NoError,
                               !.retry_count = s.retry_count + 1, !.node = "validate_sql",
                               !.messages = s.messages \o <<"validator", "sql_generator">>] :
                       sql \in ThreadCompletions }
           [] s.node = "execute_query" ->
              { [s EXCEPT !.node = AfterExecute(s.error, FALSE),
                          !.messages = s.messages \o <<"query_executor">>],
                [s EXCEPT !.error = ErrorVal("Query execution failed", <<>>),
                          !.node = AfterExecute(ErrorVal("Query execution failed", <<>>), FALSE),
                          !.messages = s.messages \o <<"query_executor">>] }
           [] s.node = "generate_response" ->
              { [s EXCEPT !.node = "END",
                          !.messages = s.messages \o <<"response_generator">>] }
           [] OTHER -> { [s EXCEPT !.pc = "returned"] }

\* Every step a thread in state s can take.
ThreadSteps(s) ==
    AskSteps(s) \cup ResumeSteps(s) \cup IntentSteps(s) \cup RewriteSteps(s)
        \cup OutOfScopeSteps(s) \cup NodeSteps(s)

\* The variables of the single conversation, which no step below touches.
svars == <<vvars, max_retries, tvars, gvars, hvars, ovars, zvars, bvars>>

\* Each action is one step on some thread t: the graph is invoked on that
\* thread's checkpoint and the new state is written back under the same id.
TAsk ==
    /\ \E t \in Threads : \E s \in AskSteps(Checkpoint(store, t)) : store' = Put(store, t, s)
    /\ UNCHANGED svars

TResume ==
    /\ \E t \in Threads : \E s \in ResumeSteps(Checkpoint(store, t)) : store' = Put(store, t, s)
    /\ UNCHANGED svars

TIntent ==
    /\ \E t \in Threads : \E s \in IntentSteps(Checkpoint(store, t)) : store' = Put(store, t, s)
    /\ UNCHANGED svars

TRewrite ==
    /\ \E t \in Threads : \E s \in RewriteSteps(Checkpoint(store, t)) : store' = Put(store, t, s)
    /\ UNCHANGED svars

TOutOfScope ==
    /\ \E t \in Threads : \E s \in OutOfScopeSteps(Checkpoint(store, t)) : store' = Put(store, t, s)
    /\ UNCHANGED svars

TNode ==
    /\ \E t \in Threads : \E s \in NodeSteps(Checkpoint(store, t)) : store' = Put(store, t, s)
    /\ UNCHANGED svars

NextT ==
    \/ TAsk
    \/ TResume
    \/ TIntent
    \/ TRewrite
    \/ TOutOfScope
    \/ TNode

SpecT == Init /\ [][NextT]_vars

\* ------------------------------------------- properties of the validator
Structural(d) == DIALECT_MAP(d) \notin BASIC_VALIDATION_DIALECTS

\* The lower-cased names of the function calls the text makes.
CalledNames(q) == { Lower(q.funcs[i].name) : i \in 1..Len(q.funcs) }

\* Whether a verdict's errors cite the function name n.
Cites(r, n) ==
    \E i \in 1..Len(r.errors) : \E j \in 1..Len(r.errors[i].names) : r.errors[i].names[j] = n

Min(a, b) == IF a <= b THEN a ELSE b

\* C2: for a structural dialect, validate returns Valid only if the parsed
\* statement's top-level form is a select, a set operation or a subquery
\* wrapper AND no function-call node of the tree has a name in the effective
\* blocklist; every other parsed statement yields Unsafe.
C2_ValidOnlyReadOnlyUnblocked ==
    (vdone /\ Structural(vdialect) /\ vquery.top \notin ErrorTops) =>
        /\ vresult.status = "valid" =>
              /\ vquery.top \in ReadTops
              /\ CalledNames(vquery) \cap blocked_functions(vextra) = {}
        /\ vquery.top \notin ReadTops => vresult.status = "unsafe"

\* C3: every statement whose top-level form is insert, update, delete, drop,
\* create, alter, merge, truncate, grant or revoke is Unsafe, for every
\* dialect (structural or lexical-only), max_limit and configured blocklist.
C3_WriteAlwaysUnsafe ==
    (vdone /\ vquery.top \in { "Insert", "Update", "Delete", "Drop", "Create", "Alter",
                               "Merge", "TruncateTable", "Grant", "Revoke" })
        => vresult.status = "unsafe"

\* C3 witness: validate has rejected an UPDATE under the lexical-only dialect
\* with a configured blocklist.
C3_Witness ==
    /\ vdone
    /\ vquery.top = "Update"
    /\ vdialect = "cosmosdb"
    /\ vextra # {}
    /\ vresult.status = "unsafe"

\* C4: a read-only query (structural dialect) that calls, anywhere and in any
\* letter case, a function of the default blocklist is Unsafe, and the error
\* cites that function's lower-cased name; this holds for dedicated and for
\* anonymous function-call nodes alike.
C4_DefaultBlockedCallUnsafe ==
    (vdone /\ Structural(vdialect) /\ vquery.top \in ReadTops) =>
        \A n \in CalledNames(vquery) \cap DANGEROUS_FUNCTIONS :
            vresult.status = "unsafe" /\ Cites(vresult, n)

\* C7: a read-only statement (select, set operation, subquery wrapper) with
\* no row-limiting clause gets, in a Valid verdict, a row limit of exactly
\* max_limit.
C7_MissingLimitAdded ==
    (vdone /\ Structural(vdialect) /\ vquery.top \in ReadTops
           /\ vquery.limit = {} /\ vquery.inner = {} /\ vresult.status = "valid")
        => vresult.query.limit = {vmax}

\* C8: a select with an integer row limit L validated with maximum M has, in
\* the Valid verdict, the limit min(L, M): unchanged when L <= M, exactly M
\* when L > M.
C8_ExistingLimitClamped ==
    (vdone /\ Structural(vdialect) /\ vquery.top = "Select" /\ vresult.status = "valid")
        => \A l \in vquery.limit : vresult.query.limit = {Min(l, vmax)}

\* C8 witness: a select whose limit exceeded max_limit was validated and now
\* carries max_limit.
C8_Witness ==
    /\ vdone
    /\ Structural(vdialect)
    /\ vquery.top = "Select"
    /\ \E l \in vquery.limit : l > vmax
    /\ vresult.status = "valid"
    /\ vresult.query.limit = {vmax}

\* C9: a Valid verdict of a structural dialect carries the limit warning if
\* and only if limit enforcement changed the statement (a limit added, or an
\* existing limit clamped down to max_limit), and never reports it as an error.
C9_WarningIffLimitChanged ==
    (vdone /\ Structural(vdialect) /\ vresult.status = "valid") =>
        /\ ("limit" \in { vresult.warnings[i] : i \in 1..Len(vresult.warnings) })
              <=> (vresult.query.limit # vquery.limit \/ vresult.query.inner # vquery.inner)
        /\ vresult.errors = <<>>

\* ---------------------------------------- properties of the data agent
\* C1: the datasource is handed a query text only by an execute step that
\* directly follows a validate step whose verdict was Valid, and the text is
\* exactly the (possibly rewritten) text of that verdict; no other text (raw
\* completion output, text of an Invalid or Unsafe verdict) reaches it.
C1_ExecuteOnlyValidated ==
    [][ Len(executed') > Len(executed) =>
          /\ lastNode = "validate_sql"
          /\ lastVerdict = "valid"
          /\ validation_result.status = "valid"
          /\ executed' = Append(executed, validation_result.query) ]_vars

\* C1 witness: after a retry, the datasource was handed the validator's
\* rewritten text, a select clamped to max_rows.
C1_Witness ==
    /\ lastNode = "execute_query"
    /\ retry_count > 0
    /\ Len(executed) = 1
    /\ executed[1].fmt = "canon"
    /\ executed[1].limit = {AgentMaxRows}
    /\ executed[1] = validation_result.query

\* The run ended in the budget-exhausted failure.
BudgetExhausted ==
    /\ pc \in {"data_agent", "returned"}
    /\ lastNode = "validate_sql"
    /\ error.tag = "Validation failed after"

\* C5 as claimed: with retry budget N and completions that are never Valid,
\* the run ends budget-exhausted after exactly N generation calls (the
\* first one and the regenerations together), never an (N+1)-th.
C5_ExhaustedAfterNCalls == BudgetExhausted => genCalls = max_retries

\* C5 as amended: a run that ends budget-exhausted has made exactly N + 1
\* generation calls (the first one plus N regenerations), and no run makes
\* an (N+2)-th.
C5_ExhaustedAfterNPlusOneCalls ==
    /\ genCalls <= max_retries + 1
    /\ BudgetExhausted => genCalls = max_retries + 1

\* C5 witness: budget 3, the run returned budget-exhausted after 4 calls.
C5_Witness ==
    /\ BudgetExhausted
    /\ pc = "returned"
    /\ max_retries = MaxBudget
    /\ genCalls = MaxBudget + 1
    /\ retry_count = MaxBudget

\* C6: whatever the completions (valid, invalid, unsafe, empty), the
\* generate / validate / retry loop reaches a terminal outcome after at most
\* max_retries regenerations: once validation has failed with the budget
\* used up the next step is not another retry, and validation runs at most
\* once per generation.
C6_LoopEndsWithinBudget ==
    /\ validations <= max_retries + 1
    /\ (pc = "data_agent" /\ lastNode = "validate_sql" /\ retry_count >= max_retries)
          => node \in {"execute_query", "END"}

\* C10: a question the classifier matches to no agent suspends the run with
\* a clarification_needed payload carrying the question and a hint; resumed
\* once with a clarified question that matches no agent either, the run
\* finishes as out_of_scope; at most one interrupt is raised per question.
NoAgentNamed ==
    \A i \in 1..Len(classified) : classified[i].answer \notin agent_names

C10_ClarifyOnceThenOutOfScope ==
    /\ interrupts <= 1
    /\ (Len(classified) = 1 /\ NoAgentNamed /\ ~Resuming) =>
          /\ pc = "suspended"
          /\ pending = InterruptPayload(question)
          /\ pending.type = "clarification_needed"
          /\ pending.hint # ""
    /\ pc = "suspended" => (interrupts = 1 /\ pending.original_question = question)
    /\ (Len(classified) > 1 /\ NoAgentNamed) =>
          /\ pc \in {"out_of_scope", "returned"}
          /\ t_error.tag = "out_of_scope"
          /\ datasource_name = ""

\* C10 witness: the run was suspended once, resumed with a clarified
\* question the classifier matched to no agent, and returned out_of_scope.
C10_Witness ==
    /\ pc = "returned"
    /\ interrupts = 1
    /\ Len(classified) = 3
    /\ NoAgentNamed
    /\ classified[3].on.form = "clarified"
    /\ t_error.tag = "out_of_scope"

\* C11: in every state the routed agent is empty or the name of an agent
\* that has a data agent graph; intent detection routes only on an answer
\* equal to such a name (never on a catalogue-only agent or another letter
\* case), and the data agent that runs is the routed one.
C11_RoutedAgentRegistered ==
    /\ datasource_name \in data_agents \cup {""}
    /\ pc \in {"query_rewrite", "data_agent"} =>
          /\ datasource_name \in data_agents
          /\ classified[Len(classified)].answer = datasource_name
          /\ route_to_agent(datasource_name, t_error) = datasource_name
    /\ (pc = "suspended" /\ classified # <<>>) =>
          classified[Len(classified)].answer \notin data_agents

\* C11 witness: the classifier first named the catalogue-only agent, the run
\* was suspended and resumed, and the agent "sales" was routed and ran.
C11_Witness ==
    /\ Len(classified) = 3
    /\ classified[1].answer = "archive"
    /\ classified[2].answer = "SALES"
    /\ classified[3].answer = "sales"
    /\ pc = "data_agent"
    /\ datasource_name = "sales"
    /\ lastNode = "validate_sql"

\* The datasource raised while executing the validated query.
ExecutionFailed ==
    /\ lastNode = "execute_query"
    /\ error.tag = "Query execution failed"

\* C12: an exception of the datasource during execution is captured in the
\* error field and is terminal: the only step that follows in the run is its
\* return to the caller with that error; nothing is generated, validated or
\* executed again, no response is composed and nothing is raised.
C12_ExecutionFailureTerminal ==
    [][ (pc = "data_agent" /\ ExecutionFailed) =>
          /\ node = "END"
          /\ pc' = "returned"
          /\ t_error' = error
          /\ genCalls' = genCalls
          /\ validations' = validations
          /\ executed' = executed
          /\ final_response = "unset"
          /\ final_response' = final_response ]_vars

\* C12 witness: the run returned the execution failure to its caller after
\* one execution, without a response.
C12_Witness ==
    /\ pc = "returned"
    /\ ExecutionFailed
    /\ t_error.tag = "Query execution failed"
    /\ Len(executed) = 1
    /\ final_response = "unset"

\* C13: whenever validate_sql ends with a non-Valid verdict and
\* retry_count < max_retries, the next step is retry_sql, whatever the
\* validator's error text is (a syntax error quotes the generated query).
C13_RetryWhileBudgetRemains ==
    ( /\ pc = "data_agent"
      /\ lastNode = "validate_sql"
      /\ lastVerdict \in {"invalid", "unsafe"}
      /\ retry_count < max_retries ) => node = "retry_sql"

\* validate_sql ended with a non-Valid verdict and the retry budget used up.
FailedWithBudgetSpent ==
    /\ lastNode = "validate_sql"
    /\ lastVerdict \in {"invalid", "unsafe"}
    /\ retry_count >= max_retries

\* C14: once validation fails with retry_count >= max_retries the run is in
\* a terminal failure: the only step that follows is the return to the
\* caller; no completion call, validation, execution or response step
\* happens, and the returned error carries the error list of the last verdict.
C14_BudgetExhaustedTerminal ==
    [][ (pc = "data_agent" /\ FailedWithBudgetSpent) =>
          /\ node = "END"
          /\ error.tag = "Validation failed after"
          /\ error.errors = validation_result.errors
          /\ pc' = "returned"
          /\ t_error' = error
          /\ genCalls' = genCalls
          /\ validations' = validations
          /\ executed' = executed
          /\ final_response' = final_response ]_vars

\* C14 witness: a run whose last verdict was Unsafe with the budget used up
\* returned that verdict's errors, having executed nothing.
C14_Witness ==
    /\ pc = "returned"
    /\ FailedWithBudgetSpent
    /\ lastVerdict = "unsafe"
    /\ t_error.tag = "Validation failed after"
    /\ t_error.errors = validation_result.errors
    /\ t_error.errors # <<>>
    /\ executed = <<>>
    /\ final_response = "unset"

\* C15: in every reachable state retry_count is between 0 and max_retries:
\* retry_sql never stores a count above the budget, whatever questions,
\* completions and resumes happened on the thread.
C15_RetryCountWithinBudget == retry_count \in 0..max_retries

\* C15 witness: on the second question of a thread, retry_sql ran with the
\* budget used up and refused to count further.
C15_Witness ==
    /\ asked = 2
    /\ pc = "data_agent"
    /\ lastNode = "retry_sql"
    /\ error.tag = "Max retries exceeded"
    /\ retry_count = max_retries

\* C16: every question starts its generation loop with retry_count = 0 (the
\* first generation and its validation run at count 0), also a later
\* question on a thread whose earlier question used up retries.
C16_EachQuestionStartsAtZero ==
    /\ (pc = "data_agent" /\ node = "generate_sql") => retry_count = 0
    /\ (pc = "data_agent" /\ genCalls = 1) => retry_count = 0

\* C16 witness: the thread's first question ended with all retries used; the
\* second question's first generation ran at count 0.
C16_Witness ==
    /\ asked = 2
    /\ prevSpent
    /\ pc = "data_agent"
    /\ lastNode = "generate_sql"
    /\ genCalls = 1
    /\ retry_count = 0

\* C17: for the lexical-only dialect validate answers, in this order: Unsafe
\* if the trimmed upper-cased text does not begin with SELECT; else Unsafe
\* if a write keyword occurs as a whole token, delimited by spaces or by
\* other whitespace; else Valid (a keyword inside a longer identifier is in
\* neither keyword set of a text).
C17_LexicalRules ==
    (vdone /\ ~Structural(vdialect)) =>
        vresult.status =
            IF ~vquery.startsSelect THEN "unsafe"
            ELSE IF (vquery.kwSpace \cup vquery.kwOther) \cap DISALLOWED_KEYWORDS # {}
            THEN "unsafe"
            ELSE "valid"

C19_RunNeverRaises == pc # "raised"

\* C20: after a successful execution the visualization step is the next
\* step if and only if the structured output of the completion that
\* generated the query flagged a visualization request.
C20_VisualizeIffFlagged ==
    (pc = "data_agent" /\ lastNode = "execute_query" /\ Falsy(error)) =>
        (node = "visualize_data" <=> vizFlag)

\* C21: whenever the visualization step runs and fails it writes
\* visualization_error only: error, result and the generated query stay as
\* they were and generate_response is the next node; a run with a failed
\* visualization returns its response without an error.
C21_VisualizationFailureNonFatal ==
    /\ [][ (pc = "data_agent" /\ node = "visualize_data" /\ visualization_image' = "unset") =>
              /\ visualization_error' # "unset"
              /\ error' = error
              /\ result' = result
              /\ generated_sql' = generated_sql
              /\ node' = "generate_response" ]_vars
    /\ []( (pc = "returned" /\ visualization_error # "unset") =>
              (Falsy(t_error) /\ t_final_response = "response") )

\* C21 witness: the code executor failed on a result with rows, and the
\* run returned its response with the visualization error beside it.
C21_Witness ==
    /\ pc = "returned"
    /\ result = "rows"
    /\ visualization_error = "exec_result.error"
    /\ visualization_image = "unset"
    /\ Falsy(t_error)
    /\ t_final_response = "response"

\* C22: when a suspended thread is resumed with a clarified question, the
\* intent step calls the classifier exactly once more, on the clarified
\* question, and raises no interrupt: two classifier calls for the question
\* in all.
C22_ResumeClassifiesOnce ==
    [][ (pc = "intent_detection" /\ Resuming /\ resume.form = "clarified") =>
          /\ Len(classified') = Len(classified) + 1
          /\ Len(classified') = 2
          /\ classified'[Len(classified')].on = resume
          /\ interrupts' = interrupts ]_vars

\* C23: whatever blocked_functions argument a validator is constructed
\* with, its blocklist is the default dangerous-function set plus that
\* argument, a superset of the defaults; constructing or using validators
\* changes neither the class-level default set nor another validator's
\* blocklist.
C23_BlocklistSupersetOfDefaults ==
    /\ class_blocklist = DANGEROUS_FUNCTIONS
    /\ \A i \in 1..Len(validators) :
          /\ DANGEROUS_FUNCTIONS \subseteq validators[i].blocked_functions
          /\ validators[i].blocked_functions = DANGEROUS_FUNCTIONS \cup validators[i].extra

\* C23 witness: a validator with a configured addition was constructed
\* before one without, and a validator was used.
C23_Witness ==
    /\ Len(validators) = 2
    /\ validators[1].extra # {}
    /\ validators[2].extra = {}
    /\ validators[2].blocked_functions = DANGEROUS_FUNCTIONS
    /\ vdone

\* C24: validation is idempotent on its own output: when validate answered
\* Valid with a rewritten text and is called on that text with the same
\* dialect, max_limit and blocklist, it answers Valid with the identical text.
C24_ValidateIdempotent ==
    (vprevious # NoResult) =>
        /\ vquery = vprevious.query
        /\ vresult.status = "valid"
        /\ vresult.query = vprevious.query

\* C24 witness: the first call rewrote the text (a limit was added to a raw
\* text) and the second call was made on the rewritten text.
C24_Witness ==
    /\ vprevious # NoResult
    /\ Structural(vdialect)
    /\ vprevious.warnings = <<"limit">>
    /\ vprevious.query.fmt = "canon"
    /\ vresult.status = "valid"

\* C25: validate is total: every call returns one verdict among Valid,
\* Invalid and Unsafe and none raises; for a structural dialect a text that
\* cannot be parsed, whether the tokenizer or the parser fails on it, yields
\* Invalid with a single syntax-error message and the input text unchanged.
C25_ValidateTotal ==
    vdone =>
        /\ vresult.status \in {"valid", "invalid", "unsafe"}
        /\ (Structural(vdialect) /\ vquery.top \in {"ParseError", "TokenError"}) =>
              /\ vresult.status = "invalid"
              /\ Len(vresult.errors) = 1
              /\ vresult.errors[1].code = "syntax"
              /\ vresult.query = vquery

\* C26: blocklist matching is case-insensitive for configured additions: a
\* read-only query (structural dialect) calling, in any letter case, a
\* function whose name the configuration added in any letter case is Unsafe
\* and the error cites the function.
C26_ConfiguredBlockedCallUnsafe ==
    (vdone /\ Structural(vdialect) /\ vquery.top \in ReadTops) =>
        \A i \in 1..Len(vquery.funcs) :
            Lower(vquery.funcs[i].name) \in { Lower(n) : n \in vextra } =>
                vresult.status = "unsafe" /\ Cites(vresult, Lower(vquery.funcs[i].name))

\* C27: a select validated as Valid with maximum M has a top-level row
\* limit, at most M, also when a nested subquery or CTE carries a LIMIT of
\* its own; the nested limit is left as written.
C27_TopLevelLimitEnforced ==
    (vdone /\ Structural(vdialect) /\ vquery.top = "Select" /\ vresult.status = "valid") =>
        /\ vresult.query.limit # {}
        /\ \A l \in vresult.query.limit : l <= vmax
        /\ vresult.query.inner = vquery.inner

\* The run returned one of the data agent's failures: the retry budget was
\* exhausted or the datasource raised during execution.
ReturnedFailure ==
    /\ pc = "returned"
    /\ t_error.tag \in {"Validation failed after", "Query execution failed"}

\* C28: when the run of a question ends in a failure (retry budget exhausted
\* or execution failure), the final_response and the result that run()
\* returns are empty: never those an earlier question on the thread produced.
C28_FailureReturnsNoEarlierOutput ==
    ReturnedFailure => (t_result = "unset" /\ t_final_response = "unset")

\* The run returned out-of-scope.
ReturnedOutOfScope ==
    /\ pc = "returned"
    /\ t_error.tag = "out_of_scope"

\* C29: a question that ends out-of-scope goes from intent detection to the
\* out-of-scope step to the end: no rewrite, generation, validation or
\* execution runs for it, and the result has error = "out_of_scope" and the
\* non-empty final response of the out-of-scope step.
C29_OutOfScopeRunsNothing ==
    /\ [][ ( pc = "intent_detection" /\ pc' \notin {"intent_detection", "suspended"}
              /\ datasource_name' = "" )
              => (pc' = "out_of_scope" /\ t_error'.tag = "out_of_scope") ]_vars
    /\ [][ pc = "out_of_scope" =>
              /\ pc' = "returned"
              /\ t_error'.tag = "out_of_scope"
              /\ t_final_response' = "out_of_scope_response"
              /\ UNCHANGED <<question, gvars, hvars>> ]_vars
    /\ [](ReturnedOutOfScope =>
              /\ question.form # "rewritten"
              /\ genCalls = 0
              /\ validations = 0
              /\ executed = <<>>
              /\ lastNode = ""
              /\ t_final_response = "out_of_scope_response")

\* C29 witness: the second question on a thread returned out-of-scope after
\* the first one had been answered from a datasource.
C29_Witness ==
    /\ ReturnedOutOfScope
    /\ asked = 2
    /\ t_result = "rows"
    /\ interrupts = 1
    /\ t_final_response = "out_of_scope_response"

\* C30: a rejected statement is never rewritten: a validate_sql step whose
\* verdict is Invalid or Unsafe has as the verdict's query text the text it
\* was given and leaves generated_sql unchanged; under the lexical-only
\* dialect the verdict's text is the text given on every verdict.
C30_RejectedTextUnchanged ==
    [][ (validations' = validations + 1 /\ lastVerdict' # "none") =>
          /\ validation_result'.status \in {"invalid", "unsafe"} =>
                /\ validation_result'.query = generated_sql
                /\ generated_sql' = generated_sql
          /\ ~Structural(validation_result'.dialect) =>
                /\ validation_result'.query = generated_sql
                /\ generated_sql' = generated_sql ]_vars

\* C30 witness: a select without row limit that calls a blocked function was
\* rejected by a structural validator and is still the text in the state.
C30_Witness ==
    /\ lastNode = "validate_sql"
    /\ lastVerdict = "unsafe"
    /\ Structural(validation_result.dialect)
    /\ generated_sql.top = "Select"
    /\ generated_sql.limit = {}
    /\ generated_sql.fmt = "raw"
    /\ validation_result.query = generated_sql

====
